---- MODULE Spec2Model ----
(***************************************************************************)
(* Model of audyo (src/src/lib.rs): the SampleBuffer container, the        *)
(* interleave / de-interleave functions, the decode orchestration and the  *)
(* chunked Vorbis encode loop.                                             *)
(*                                                                         *)
(* Four specifications share the variables:                                *)
(*   Spec     one call of decode(source), step by step;                    *)
(*   SpecFair Spec with the fairness of sequential code, for termination;  *)
(*   SpecBuf  a buffer built by SampleBuffer::new, filled by copy_samples  *)
(*            and handed to converted or to encode_vorbis;                 *)
(*   SpecFn   interleave and deintereave applied to chosen arguments.      *)
(*                                                                         *)
(* Optional values (Rust Option<T>) are sequences: <<>> is None and <<x>>  *)
(* is Some(x).  Sample values are the i16 instance of S; the decoder's     *)
(* native sample format is u8.                                             *)
(***************************************************************************)
EXTENDS Integers, Sequences, FiniteSets, TLC

VARIABLES
    pc,         \* position of the running function
    source,     \* what the media source, prober and track report (read-only)
    len,        \* decode: let len
    id,         \* decode: let id
    n_frames,   \* decode: let n_frames
    buffer,     \* the SampleBuffer (NoBuffer before SampleBuffer::new)
    decoder,    \* decode: TRUE once get_codecs().make returned Ok
    bitrate,    \* decode: let bitrate
    npackets,   \* number of reader.next_packet() calls that returned Ok
    ndecoded,   \* number of decoder.decode(&packet) calls made
    okPlanes,   \* the converted planes of the packets decoded successfully, in order
    last,       \* the last event of the loop / the last call made on the buffer
    encoder,    \* encode_vorbis: the blocks submitted and the finish() calls
    chunk,      \* encode_vorbis: index of the next chunk of the for loop
    result,     \* what the function returned (or the fatal fault that halted it)
    call        \* one call of interleave / deintereave: its arguments and its value

vars == <<pc, source, len, id, n_frames, buffer, decoder, bitrate, npackets,
          ndecoded, okPlanes, last, encoder, chunk, result, call>>

(***************************************************************************)
(* Bounds of the model.                                                    *)
(***************************************************************************)
MaxFrames == 2      \* largest small frame count (n_frames, duration)
MaxPktFrames == 2   \* largest small number of frames in one decoded packet
MaxPackets == 3     \* packets the reader delivers before it must report an error
MaxAppends == 2     \* copy_samples calls made on a buffer in SpecBuf
MaxByteLen == 12    \* largest byte length a source reports
MaxFnLen == 4       \* longest array handed to interleave / deintereave alone

(***************************************************************************)
(* Program constants.                                                      *)
(***************************************************************************)
Mono == 1
Stereo == 2
MID == 0            \* S::MID of the i16 instance

\* Mutant of CHUNK: an odd chunk size.
CHUNK_odd == 2048 - 1

\* line 282: samples.samples().chunks(2048)
CHUNK == 2048

Option(S) == {<<>>} \cup {<<x>> : x \in S}
IsSome(o) == Len(o) = 1
Unwrap(o) == o[1]

Min(a, b) == IF a <= b THEN a ELSE b

(***************************************************************************)
(* Channels and SampleBuffer.                                              *)
(***************************************************************************)
Channels == {Mono, Stereo}

\* `buffer` before SampleBuffer::new has run: no storage is allocated.
NoBuffer ==
    [buffer |-> <<>>, written |-> 0, duration |-> 0, channels |-> 0,
     sample_rate |-> 0]

\* SampleBuffer::new: channels * duration slots, all S::MID, written = 0.
new(duration, channels, sample_rate) ==
    [buffer      |-> [i \in 1..(channels * duration) |-> MID],
     written     |-> 0,
     duration    |-> duration,
     channels    |-> channels,
     sample_rate |-> sample_rate]

\* SampleBuffer::samples: a reference to the whole boxed slice.
samples(self) == self.buffer

\* FromSample<u8> for i16 (symphonia): recentre on zero, scale to 16 bits.
from_sample(s) == (s - 128) * 256

\* AudioBufferRef::convert into the equivalent buffer of S: plane by plane,
\* sample by sample; the number of planes and frames is kept.
convert(planes) ==
    [p \in DOMAIN planes |-> [i \in DOMAIN planes[p] |-> from_sample(planes[p][i])]]

\* interleave indexes samples[0] (Mono) or samples[0] and samples[1] (Stereo):
\* with fewer planes the index is out of bounds and the process halts.
interleave_panics(planes, channels) == Len(planes) < channels

\* interleave: Mono is plane 0; Stereo zips plane 0 with plane 1 (zip stops at
\* the shorter one) and flattens the pairs.
interleave(planes, channels) ==
    IF channels = Mono
    THEN planes[1]
    ELSE [k \in 1..(2 * Min(Len(planes[1]), Len(planes[2]))) |->
             IF k % 2 = 1 THEN planes[1][(k + 1) \div 2] ELSE planes[2][k \div 2]]

\* deintereave, Stereo: the loop reads samples[i] and samples[i + 1] for
\* i = 0, 2, 4, ...: an odd length indexes past the end and halts.
deintereave_panics(chunkSamples, channels) ==
    channels = Stereo /\ Len(chunkSamples) % 2 = 1

\* Mutant of deintereave: Stereo splits the array into its first and second
\* half instead of its even and odd positions.
deintereave_halves(chunkSamples, channels) ==
    IF channels = Mono
    THEN <<chunkSamples>>
    ELSE <<SubSeq(chunkSamples, 1, Len(chunkSamples) \div 2),
           SubSeq(chunkSamples, Len(chunkSamples) \div 2 + 1,
                  2 * (Len(chunkSamples) \div 2))>>

deintereave(chunkSamples, channels) ==
    IF channels = Mono
    THEN <<chunkSamples>>
    ELSE <<[k \in 1..(Len(chunkSamples) \div 2) |-> chunkSamples[2 * k - 1]],
           [k \in 1..(Len(chunkSamples) \div 2) |-> chunkSamples[2 * k]]>>

\* slice::chunks(n): consecutive slices of n elements, the last one shorter.
chunks(s, n) ==
    [k \in 1..((Len(s) + n - 1) \div n) |->
        SubSeq(s, (k - 1) * n + 1, Min(k * n, Len(s)))]

\* Mutant of copy_samples_panics: the range of the copy is not checked.
copy_samples_panics_unchecked(self, decoded) ==
    interleave_panics(convert(decoded), self.channels)

\* copy_samples halts when interleave does, or when the range
\* written .. written + len does not lie inside the boxed slice.
copy_samples_panics(self, decoded) ==
    \/ interleave_panics(convert(decoded), self.channels)
    \/ self.written + Len(interleave(convert(decoded), self.channels))
          > Len(self.buffer)

\* Mutant of copy_samples: the copy starts at slot 0 instead of the cursor.
copy_samples_from_start(self, decoded) ==
    LET interleaved == interleave(convert(decoded), self.channels)
    IN  [self EXCEPT
           !.buffer  = [i \in DOMAIN self.buffer |->
                          IF i <= Len(interleaved) THEN interleaved[i] ELSE self.buffer[i]],
           !.written = self.written + Len(interleaved)]

\* copy_samples: convert, interleave, copy at the write cursor, advance it.
copy_samples(self, decoded) ==
    LET interleaved == interleave(convert(decoded), self.channels)
    IN  [self EXCEPT
           !.buffer  = [i \in DOMAIN self.buffer |->
                          IF self.written < i /\ i <= self.written + Len(interleaved)
                          THEN interleaved[i - self.written]
                          ELSE self.buffer[i]],
           !.written = self.written + Len(interleaved)]

\* FromSample<i16> for u8 (symphonia), the T of converted::<u8>: the high
\* byte of the sample, recentred on 128 (\div rounds down, as >> does).
from_sample_u8(s) == ((s + 32768) \div 256) % 256

\* Mutant of converted: the new buffer starts with an empty written region.
converted_resets_written(self) ==
    [buffer      |-> [i \in DOMAIN self.buffer |-> from_sample_u8(self.buffer[i])],
     written     |-> 0,
     duration    |-> self.duration,
     channels    |-> self.channels,
     sample_rate |-> self.sample_rate]

\* SampleBuffer::converted::<T>: every slot of the boxed slice converted, the
\* other fields copied.
converted(self) ==
    [buffer      |-> [i \in DOMAIN self.buffer |-> from_sample_u8(self.buffer[i])],
     written     |-> self.written,
     duration    |-> self.duration,
     channels    |-> self.channels,
     sample_rate |-> self.sample_rate]

(***************************************************************************)
(* What a media source can report (the inputs of decode).                  *)
(***************************************************************************)
TrackIds == {1, 2}
Layouts == {"Mono", "Stereo", "FivePointOne"}   \* symphonia Layout tags
ChannelCounts == {1, 2, 6}                        \* Channels::count()
SampleRates == {8}
TimeBases == {<<1, 1>>, <<2, 3>>}                \* <<numer, denom>>, both > 0
NativeSamples == {127, 130}                      \* u8 samples a decoder emits
PlaneCounts == {1, 2}                            \* channels of a decoded AudioBuffer

Sources ==
    [byte_len       : Option({MaxByteLen}),
     probe          : {"Ok", "Err"},
     default_track  : Option(TrackIds),
     n_frames       : Option(0..MaxFrames),
     channel_layout : Option(Layouts),
     channels       : Option(ChannelCounts),
     sample_rate    : Option(SampleRates),
     time_base      : Option(TimeBases),
     codec          : {"Ok", "Err"}]

\* The source once decode no longer refers to it (track, len and n_frames are
\* dead after the bitrate is computed), and in SpecBuf, which has none.
NoSource ==
    [byte_len |-> <<>>, probe |-> "Err", default_track |-> <<>>,
     n_frames |-> <<>>, channel_layout |-> <<>>, channels |-> <<>>,
     sample_rate |-> <<>>, time_base |-> <<>>, codec |-> "Err"]

\* Planes of `frames` native samples each, as an AudioBuffer holds them (all
\* planes of one AudioBuffer have the same number of frames).
Planes(nplanes, frames) == [1..nplanes -> [1..frames -> NativeSamples]]

NoResult == [tag |-> "None", err |-> <<>>, value |-> <<>>]
Ok(v) == [tag |-> "Ok", err |-> <<>>, value |-> v]
Err(kind, what) == [tag |-> "Err", err |-> <<kind, what>>, value |-> <<>>]
Panic(what) == [tag |-> "Panic", err |-> <<"panic", what>>, value |-> <<>>]
PropertyLacking(what) == Err("PropertyLacking", what)

NoEvent == [ev |-> "none", track_id |-> 0, planes |-> <<>>, kind |-> "none"]
Event(ev, t, planes) == [ev |-> ev, track_id |-> t, planes |-> planes, kind |-> "none"]
ErrEvent(ev, t, kind) == [ev |-> ev, track_id |-> t, planes |-> <<>>, kind |-> kind]

NoEncoder == [built |-> FALSE, blocks |-> <<>>, finished |-> 0]

\* `call` while interleave / deintereave is not called on its own.
NoCall == [fn |-> "none", channels |-> 0, samples |-> <<>>, planes |-> <<>>,
           interleaved |-> <<>>]

\* TimeBase::calc_time(ts).seconds: the whole seconds of ts * numer / denom.
calc_time_seconds(tb, ts) == (ts * tb[1]) \div tb[2]

\* The layout decode resolves (lines 207-221): the tag first, else the count.
layout_of_tag(l) == IF l = "Mono" THEN Mono ELSE Stereo
layout_of_count(c) == IF c > 1 THEN Stereo ELSE Mono

\* Mutant of resolved_layout: the channel count is preferred to the tag.
resolved_layout_count_first(src) ==
    IF IsSome(src.channels)
    THEN layout_of_count(Unwrap(src.channels))
    ELSE layout_of_tag(Unwrap(src.channel_layout))

resolved_layout(src) ==
    IF IsSome(src.channel_layout)
    THEN layout_of_tag(Unwrap(src.channel_layout))
    ELSE layout_of_count(Unwrap(src.channels))

\* A function that returns or halts keeps nothing running.
Finish(r) ==
    /\ result' = r
    /\ pc' = IF r.tag = "Ok" THEN "done" ELSE IF r.tag = "Err" THEN "failed" ELSE "panic"

Init ==
    /\ pc = "byte_len"
    /\ source \in Sources
    /\ len = 0
    /\ id = 0
    /\ n_frames = 0
    /\ buffer = NoBuffer
    /\ decoder = FALSE
    /\ bitrate = 0
    /\ npackets = 0
    /\ ndecoded = 0
    /\ okPlanes = <<>>
    /\ last = NoEvent
    /\ encoder = NoEncoder
    /\ chunk = 0
    /\ result = NoResult
    /\ call = NoCall

\* lines 181-183: source.byte_len().ok_or(PropertyLacking("source length"))?
DecodeByteLen ==
    /\ pc = "byte_len"
    /\ IF IsSome(source.byte_len)
       THEN /\ len' = Unwrap(source.byte_len)
            /\ pc' = "probe"
            /\ UNCHANGED result
       ELSE /\ Finish(PropertyLacking("source length"))
            /\ UNCHANGED len
    /\ UNCHANGED <<call, source, id, n_frames, buffer, decoder, bitrate, npackets,
                   ndecoded, okPlanes, last, encoder, chunk>>

\* lines 185-194: get_probe().format(...)?
DecodeProbe ==
    /\ pc = "probe"
    /\ IF source.probe = "Ok"
       THEN pc' = "default_track" /\ UNCHANGED result
       ELSE Finish(Err("Symphonia", "probe"))
    /\ UNCHANGED <<call, source, len, id, n_frames, buffer, decoder, bitrate, npackets,
                   ndecoded, okPlanes, last, encoder, chunk>>

\* Mutant of DecodeDefaultTrack: default_track().unwrap() instead of ok_or.
DecodeDefaultTrack_unwraps ==
    /\ pc = "default_track"
    /\ IF IsSome(source.default_track)
       THEN /\ id' = Unwrap(source.default_track)
            /\ pc' = "n_frames"
            /\ UNCHANGED result
       ELSE /\ Finish(Panic("unwrap on None"))
            /\ UNCHANGED id
    /\ UNCHANGED <<call, source, len, n_frames, buffer, decoder, bitrate, npackets,
                   ndecoded, okPlanes, last, encoder, chunk>>

\* lines 196-199: reader.default_track().ok_or(...)?; let id = track.id
DecodeDefaultTrack ==
    /\ pc = "default_track"
    /\ IF IsSome(source.default_track)
       THEN /\ id' = Unwrap(source.default_track)
            /\ pc' = "n_frames"
            /\ UNCHANGED result
       ELSE /\ Finish(PropertyLacking("default track"))
            /\ UNCHANGED id
    /\ UNCHANGED <<call, source, len, n_frames, buffer, decoder, bitrate, npackets,
                   ndecoded, okPlanes, last, encoder, chunk>>

\* Mutant of DecodeNFrames: n_frames.unwrap_or(0), an absent count is no error.
DecodeNFrames_defaults ==
    /\ pc = "n_frames"
    /\ n_frames' = IF IsSome(source.n_frames) THEN Unwrap(source.n_frames) ELSE 0
    /\ pc' = "channel_layout"
    /\ UNCHANGED <<call, source, len, id, buffer, decoder, bitrate, npackets,
                   ndecoded, okPlanes, last, encoder, chunk, result>>

\* lines 201-204: track.codec_params.n_frames.ok_or(...)?
DecodeNFrames ==
    /\ pc = "n_frames"
    /\ IF IsSome(source.n_frames)
       THEN /\ n_frames' = Unwrap(source.n_frames)
            /\ pc' = "channel_layout"
            /\ UNCHANGED result
       ELSE /\ Finish(PropertyLacking("n_frames"))
            /\ UNCHANGED n_frames
    /\ UNCHANGED <<call, source, len, id, buffer, decoder, bitrate, npackets,
                   ndecoded, okPlanes, last, encoder, chunk>>

\* lines 207-222, the second argument of SampleBuffer::new: a tag other than
\* Mono and Stereo panics inside map; with no tag the channel count decides;
\* with neither, PropertyLacking("channel layout").
DecodeChannelLayout ==
    /\ pc = "channel_layout"
    /\ IF IsSome(source.channel_layout)
          /\ Unwrap(source.channel_layout) \notin {"Mono", "Stereo"}
       THEN Finish(Panic("unsupported layout"))
       ELSE IF IsSome(source.channel_layout) \/ IsSome(source.channels)
       THEN pc' = "sample_rate" /\ UNCHANGED result
       ELSE Finish(PropertyLacking("channel layout"))
    /\ UNCHANGED <<call, source, len, id, n_frames, buffer, decoder, bitrate, npackets,
                   ndecoded, okPlanes, last, encoder, chunk>>

\* Mutant of DecodeSampleRate: the buffer is built with a placeholder rate
\* before the rate is checked.
DecodeSampleRate_allocates ==
    /\ pc = "sample_rate"
    /\ IF IsSome(source.sample_rate)
       THEN pc' = "new" /\ UNCHANGED <<result, buffer>>
       ELSE /\ buffer' = new(n_frames, resolved_layout(source), 0)
            /\ Finish(PropertyLacking("sample rate"))
    /\ UNCHANGED <<call, source, len, id, n_frames, decoder, bitrate, npackets,
                   ndecoded, okPlanes, last, encoder, chunk>>

\* lines 223-226, the third argument: sample_rate.ok_or(...)?
DecodeSampleRate ==
    /\ pc = "sample_rate"
    /\ IF IsSome(source.sample_rate)
       THEN pc' = "new" /\ UNCHANGED result
       ELSE Finish(PropertyLacking("sample rate"))
    /\ UNCHANGED <<call, source, len, id, n_frames, buffer, decoder, bitrate, npackets,
                   ndecoded, okPlanes, last, encoder, chunk>>

\* lines 205-227: let mut buffer = SampleBuffer::new(n_frames, layout, rate)
DecodeNew ==
    /\ pc = "new"
    /\ buffer' = new(n_frames, resolved_layout(source), Unwrap(source.sample_rate))
    /\ pc' = "make"
    /\ UNCHANGED <<call, source, len, id, n_frames, decoder, bitrate, npackets,
                   ndecoded, okPlanes, last, encoder, chunk, result>>

\* lines 229-230: get_codecs().make(&track.codec_params, ...)?
DecodeMake ==
    /\ pc = "make"
    /\ IF source.codec = "Ok"
       THEN decoder' = TRUE /\ pc' = "bitrate" /\ UNCHANGED result
       ELSE Finish(Err("Symphonia", "make")) /\ UNCHANGED decoder
    /\ UNCHANGED <<call, source, len, id, n_frames, buffer, bitrate, npackets,
                   ndecoded, okPlanes, last, encoder, chunk>>

\* lines 232-239: len / time_base.ok_or(...)?.calc_time(n_frames).seconds * 8,
\* in u64: the division truncates and a zero divisor halts the process (the
\* byte lengths of the model are far below 2^61, where * 8 cannot overflow).
\* track, len and n_frames are not used after this line.
DecodeBitrate ==
    /\ pc = "bitrate"
    /\ IF ~IsSome(source.time_base)
       THEN Finish(PropertyLacking("time base")) /\ UNCHANGED <<bitrate, source>>
       ELSE IF calc_time_seconds(Unwrap(source.time_base), n_frames) = 0
       THEN Finish(Panic("attempt to divide by zero")) /\ UNCHANGED <<bitrate, source>>
       ELSE /\ bitrate' =
                 (len \div calc_time_seconds(Unwrap(source.time_base), n_frames)) * 8
            /\ source' = NoSource
            /\ pc' = "loop"
            /\ UNCHANGED result
    /\ UNCHANGED <<call, len, id, n_frames, buffer, decoder, npackets,
                   ndecoded, okPlanes, last, encoder, chunk>>

(***************************************************************************)
(* The packet loop of decode, lines 241-258.  Each action is one turn of   *)
(* the loop.  The reader delivers at most MaxPackets packets and may       *)
(* report an error (end of stream included) at any turn.                   *)
(***************************************************************************)

\* Mutant of LoopReaderErr: a reader error is taken for a packet to skip and
\* the loop goes on.
LoopReaderErr_continues ==
    /\ pc = "loop"
    /\ \E kind \in {"end of stream", "io error"} :
          last' = ErrEvent("reader error", 0, kind)
    /\ UNCHANGED <<call, pc, result, source, len, id, n_frames, buffer, decoder, bitrate,
                   npackets, ndecoded, okPlanes, encoder, chunk>>

\* lines 242-245: reader.next_packet() is an Err (end of stream, I/O error,
\* reset required): break, then line 258 returns Ok((bitrate, buffer)).
LoopReaderErr ==
    /\ pc = "loop"
    /\ \E kind \in {"end of stream", "io error"} :
          last' = ErrEvent("reader error", 0, kind)
    /\ Finish(Ok(<<bitrate, buffer>>))
    /\ UNCHANGED <<call, source, len, id, n_frames, buffer, decoder, bitrate, npackets,
                   ndecoded, okPlanes, encoder, chunk>>

\* Mutant of LoopSkip: the track id is not compared, the packet is decoded
\* and appended.
LoopSkip_decodes ==
    /\ pc = "loop"
    /\ npackets < MaxPackets
    /\ \E t \in TrackIds \ {id} :
       \E frames \in 0..MaxPktFrames : \E decoded \in Planes(buffer.channels, frames) :
          /\ ~copy_samples_panics(buffer, decoded)
          /\ last' = Event("ok", t, decoded)
          /\ buffer' = copy_samples(buffer, decoded)
          /\ okPlanes' = Append(okPlanes, decoded)
    /\ npackets' = npackets + 1
    /\ ndecoded' = ndecoded + 1
    /\ UNCHANGED <<call, pc, source, len, id, n_frames, decoder, bitrate,
                   encoder, chunk, result>>

\* lines 247-249: a packet of another track: continue.
LoopSkip ==
    /\ pc = "loop"
    /\ npackets < MaxPackets
    /\ \E t \in TrackIds \ {id} : last' = Event("skip", t, <<>>)
    /\ npackets' = npackets + 1
    /\ UNCHANGED <<call, pc, source, len, id, n_frames, buffer, decoder, bitrate,
                   ndecoded, okPlanes, encoder, chunk, result>>

\* lines 251-252: the packet decodes: buffer.copy_samples(decoded).  The
\* decoded audio has the channels the decoder finds in the bitstream, which
\* need not be those the codec parameters announced.
LoopDecodeOk ==
    /\ pc = "loop"
    /\ npackets < MaxPackets
    /\ \E np \in PlaneCounts, frames \in 0..MaxPktFrames : \E decoded \in Planes(np, frames) :
          /\ last' = Event("ok", id, decoded)
          /\ IF copy_samples_panics(buffer, decoded)
             THEN /\ Finish(Panic("range end index out of range"))
                  /\ UNCHANGED <<buffer, okPlanes>>
             ELSE /\ buffer' = copy_samples(buffer, decoded)
                  /\ okPlanes' = Append(okPlanes, decoded)
                  /\ UNCHANGED <<pc, result>>
    /\ npackets' = npackets + 1
    /\ ndecoded' = ndecoded + 1
    /\ UNCHANGED <<call, source, len, id, n_frames, decoder, bitrate, encoder, chunk>>

\* Mutant of LoopDecodeSoft: the decode error falls into the `_ => break` arm.
LoopDecodeSoft_breaks ==
    /\ pc = "loop"
    /\ npackets < MaxPackets
    /\ last' = Event("soft", id, <<>>)
    /\ npackets' = npackets + 1
    /\ ndecoded' = ndecoded + 1
    /\ Finish(Ok(<<bitrate, buffer>>))
    /\ UNCHANGED <<call, source, len, id, n_frames, buffer, decoder, bitrate,
                   okPlanes, encoder, chunk>>

\* line 253: Err(SymphoniaError::DecodeError(_)) => (): the packet is dropped.
LoopDecodeSoft ==
    /\ pc = "loop"
    /\ npackets < MaxPackets
    /\ last' = Event("soft", id, <<>>)
    /\ npackets' = npackets + 1
    /\ ndecoded' = ndecoded + 1
    /\ UNCHANGED <<call, pc, source, len, id, n_frames, buffer, decoder, bitrate,
                   okPlanes, encoder, chunk, result>>

\* Mutant of LoopDecodeHard: the error is propagated to the caller with `?`.
LoopDecodeHard_propagates ==
    /\ pc = "loop"
    /\ npackets < MaxPackets
    /\ \E kind \in {"io error", "reset required"} :
          last' = ErrEvent("hard", id, kind)
    /\ npackets' = npackets + 1
    /\ ndecoded' = ndecoded + 1
    /\ Finish(Err("Symphonia", "decode"))
    /\ UNCHANGED <<call, source, len, id, n_frames, buffer, decoder, bitrate,
                   okPlanes, encoder, chunk>>

\* line 254: any other decoder error (IoError, ResetRequired, ...): break,
\* then line 258 returns Ok((bitrate, buffer)).
LoopDecodeHard ==
    /\ pc = "loop"
    /\ npackets < MaxPackets
    /\ \E kind \in {"io error", "reset required"} :
          last' = ErrEvent("hard", id, kind)
    /\ npackets' = npackets + 1
    /\ ndecoded' = ndecoded + 1
    /\ Finish(Ok(<<bitrate, buffer>>))
    /\ UNCHANGED <<call, source, len, id, n_frames, buffer, decoder, bitrate,
                   okPlanes, encoder, chunk>>

Next ==
    \/ DecodeByteLen
    \/ DecodeProbe
    \/ DecodeDefaultTrack
    \/ DecodeNFrames
    \/ DecodeChannelLayout
    \/ DecodeSampleRate
    \/ DecodeNew
    \/ DecodeMake
    \/ DecodeBitrate
    \/ LoopReaderErr
    \/ LoopSkip
    \/ LoopDecodeOk
    \/ LoopDecodeSoft
    \/ LoopDecodeHard

Spec == Init /\ [][Next]_vars

\* decode is sequential code: while it has not returned or halted it takes
\* its next step.  (The reader reports an error after MaxPackets packets at
\* the latest: the streams of the model are finite.)
\* The loop reads neither the name of the selected track nor the bitrate:
\* for termination one track id and one time base stand for all.
FairSources ==
    {s \in Sources : /\ s.default_track \in Option({1})
                     /\ s.time_base \in Option({<<1, 1>>})}

InitFair ==
    /\ pc = "byte_len"
    /\ source \in FairSources
    /\ len = 0
    /\ id = 0
    /\ n_frames = 0
    /\ buffer = NoBuffer
    /\ decoder = FALSE
    /\ bitrate = 0
    /\ npackets = 0
    /\ ndecoded = 0
    /\ okPlanes = <<>>
    /\ last = NoEvent
    /\ encoder = NoEncoder
    /\ chunk = 0
    /\ result = NoResult
    /\ call = NoCall

SpecFair == InitFair /\ [][Next]_vars /\ WF_vars(Next)

(***************************************************************************)
(* SpecBuf: a caller inside the crate constructs a buffer, appends decoded *)
(* audio to it and encodes it.  The buffer sizes straddle the chunk size   *)
(* of encode_vorbis.                                                       *)
(***************************************************************************)
Durations == (0..MaxFrames) \cup {CHUNK, CHUNK + 1}
BufSampleRates == {0, 8}
EncodeBitrates == {0, 96}      \* the bitrate argument of encode_vorbis

\* A decoded test signal: plane p, frame i holds base + 4 * (p - 1) + i % 4, so
\* neighbouring frames and the two planes differ and no sample is neutral.
SignalBases == {120, 140}
Signal(nplanes, frames, base) ==
    [p \in 1..nplanes |-> [i \in 1..frames |-> base + 4 * (p - 1) + (i % 4)]]

\* What the caller appends to a buffer of `channels` channels: a signal of
\* a few frames or of CHUNK frames, in one plane or in two.
DecodedFor(channels) ==
    {Signal(np, f, b) : np \in PlaneCounts,
                        f \in (0..MaxPktFrames) \cup {CHUNK},
                        b \in SignalBases}

InitBuf ==
    /\ pc = "buf_start"
    /\ source = NoSource
    /\ len = 0
    /\ id = 0
    /\ n_frames = 0
    /\ buffer = NoBuffer
    /\ decoder = FALSE
    /\ bitrate = 0
    /\ npackets = 0
    /\ ndecoded = 0
    /\ okPlanes = <<>>
    /\ last = NoEvent
    /\ encoder = NoEncoder
    /\ chunk = 0
    /\ result = NoResult
    /\ call = NoCall

\* lines 58-66: SampleBuffer::new(duration, channels, sample_rate)
BufNew ==
    /\ pc = "buf_start"
    /\ \E d \in Durations, c \in Channels, r \in BufSampleRates :
          buffer' = new(d, c, r)
    /\ pc' = "buf_ready"
    /\ UNCHANGED <<call, source, len, id, n_frames, decoder, bitrate, npackets,
                   ndecoded, okPlanes, last, encoder, chunk, result>>

\* lines 88-98: buffer.copy_samples(decoded)
BufCopySamples ==
    /\ pc = "buf_ready"
    /\ npackets < MaxAppends
    /\ \E decoded \in DecodedFor(buffer.channels) :
          /\ last' = Event("ok", 0, decoded)
          /\ IF copy_samples_panics(buffer, decoded)
             THEN Finish(Panic("index out of range")) /\ UNCHANGED buffer
             ELSE buffer' = copy_samples(buffer, decoded) /\ UNCHANGED <<pc, result>>
    /\ npackets' = npackets + 1
    /\ UNCHANGED <<call, source, len, id, n_frames, decoder, bitrate,
                   ndecoded, okPlanes, encoder, chunk>>

\* lines 272-280: build the encoder.  NonZeroU32::new(sample_rate).unwrap()
\* halts on a zero rate; VorbisEncoderBuilder::new(..)? may fail; then
\* NonZeroU32::new(bitrate as u32).unwrap() halts on a zero bitrate (the
\* bitrates of the model are below 2^32, where `as u32` changes nothing);
\* build()? may fail.
EncodeBuild ==
    /\ pc = "buf_ready"
    /\ \E b \in EncodeBitrates, vorbis \in {"ok", "new fails", "build fails"} :
          /\ bitrate' = b
          /\ IF buffer.sample_rate = 0
             THEN Finish(Panic("unwrap on None: sample rate")) /\ UNCHANGED <<encoder, chunk>>
             ELSE IF vorbis = "new fails"
             THEN Finish(Err("Vorbis", "new")) /\ UNCHANGED <<encoder, chunk>>
             ELSE IF b = 0
             THEN Finish(Panic("unwrap on None: bitrate")) /\ UNCHANGED <<encoder, chunk>>
             ELSE IF vorbis = "build fails"
             THEN Finish(Err("Vorbis", "build")) /\ UNCHANGED <<encoder, chunk>>
             ELSE /\ encoder' = [built |-> TRUE, blocks |-> <<>>, finished |-> 0]
                  /\ chunk' = 1
                  /\ pc' = "encode_loop"
                  /\ UNCHANGED result
    /\ UNCHANGED <<call, source, len, id, n_frames, buffer, decoder, npackets,
                   ndecoded, okPlanes, last>>

\* Mutant of EncodeBlock: the result of encode_audio_block is dropped, a
\* failed block is skipped and the loop goes on.
EncodeBlock_ignores_error ==
    /\ pc = "encode_loop"
    /\ chunk <= Len(chunks(samples(buffer), CHUNK))
    /\ \E submit \in {"ok", "fails"} :
          encoder' = IF submit = "ok"
                     THEN [encoder EXCEPT !.blocks =
                             Append(@, deintereave(chunks(samples(buffer), CHUNK)[chunk],
                                                   buffer.channels))]
                     ELSE encoder
    /\ chunk' = chunk + 1
    /\ UNCHANGED <<call, pc, result, source, len, id, n_frames, buffer, decoder, bitrate,
                   npackets, ndecoded, okPlanes, last>>

\* lines 282-284, one turn of the for loop: de-interleave the next chunk of
\* samples.samples().chunks(2048) and submit it; `?` returns the error.
EncodeBlock ==
    /\ pc = "encode_loop"
    /\ chunk <= Len(chunks(samples(buffer), CHUNK))
    /\ LET c == chunks(samples(buffer), CHUNK)[chunk]
       IN  IF deintereave_panics(c, buffer.channels)
           THEN Finish(Panic("index out of bounds")) /\ UNCHANGED <<encoder, chunk>>
           ELSE \E submit \in {"ok", "fails"} :
                  IF submit = "ok"
                  THEN /\ encoder' = [encoder EXCEPT !.blocks =
                                         Append(@, deintereave(c, buffer.channels))]
                       /\ chunk' = chunk + 1
                       /\ UNCHANGED <<pc, result>>
                  ELSE /\ Finish(Err("Vorbis", "encode_audio_block"))
                       /\ UNCHANGED <<encoder, chunk>>
    /\ UNCHANGED <<call, source, len, id, n_frames, buffer, decoder, bitrate, npackets,
                   ndecoded, okPlanes, last>>

\* line 286: encoder.finish() after the last chunk: the compressed bytes, or
\* the encoder's error.
EncodeFinish ==
    /\ pc = "encode_loop"
    /\ chunk > Len(chunks(samples(buffer), CHUNK))
    /\ encoder' = [encoder EXCEPT !.finished = @ + 1]
    /\ \E finish \in {"ok", "fails"} :
          Finish(IF finish = "ok" THEN Ok(<<"ogg">>) ELSE Err("Vorbis", "finish"))
    /\ UNCHANGED <<call, source, len, id, n_frames, buffer, decoder, bitrate, npackets,
                   ndecoded, okPlanes, last, chunk>>

\* lines 100-130: buffer.converted::<u8>(), the caller's last call on the
\* buffer; `result` holds the buffer it returns.
BufConverted ==
    /\ pc = "buf_ready"
    /\ last' = Event("converted", 0, <<>>)
    /\ Finish(Ok(<<converted(buffer)>>))
    /\ UNCHANGED <<call, source, len, id, n_frames, buffer, decoder, bitrate, npackets,
                   ndecoded, okPlanes, encoder, chunk>>

NextBuf ==
    \/ BufNew
    \/ BufCopySamples
    \/ BufConverted
    \/ EncodeBuild
    \/ EncodeBlock
    \/ EncodeFinish

SpecBuf == InitBuf /\ [][NextBuf]_vars

(***************************************************************************)
(* interleave and deintereave on their own: one array or one list of       *)
(* planes is chosen, and the functions are applied to it.                  *)
(***************************************************************************)
FnSamples == {1, 2}

\* The arrays of at most n samples.
Arrays(n) == UNION {[1..k -> FnSamples] : k \in 0..n}

\* The arguments of the first call: an interleaved array for deintereave, or
\* one or two planes (of any two lengths) for interleave.
Calls ==
    {[fn |-> "deintereave", channels |-> c, samples |-> a, planes |-> <<>>,
      interleaved |-> <<>>] : c \in Channels, a \in Arrays(MaxFnLen)}
    \cup
    {[fn |-> "interleave", channels |-> c, samples |-> <<>>, planes |-> p,
      interleaved |-> <<>>] :
        c \in Channels,
        p \in UNION {[1..n -> Arrays(MaxFnLen - 1)] : n \in PlaneCounts}}

InitFn ==
    /\ pc = "fn_start"
    /\ call \in Calls
    /\ source = NoSource
    /\ len = 0
    /\ id = 0
    /\ n_frames = 0
    /\ buffer = NoBuffer
    /\ decoder = FALSE
    /\ bitrate = 0
    /\ npackets = 0
    /\ ndecoded = 0
    /\ okPlanes = <<>>
    /\ last = NoEvent
    /\ encoder = NoEncoder
    /\ chunk = 0
    /\ result = NoResult

\* lines 145-162: deintereave(samples, channels)
FnDeinterleave ==
    /\ pc = "fn_start"
    /\ call.fn = "deintereave"
    /\ IF deintereave_panics(call.samples, call.channels)
       THEN Finish(Panic("index out of bounds")) /\ UNCHANGED call
       ELSE /\ call' = [call EXCEPT !.planes = deintereave(call.samples, call.channels)]
            /\ pc' = "fn_deinterleaved"
            /\ UNCHANGED result
    /\ UNCHANGED <<source, len, id, n_frames, buffer, decoder, bitrate, npackets,
                   ndecoded, okPlanes, last, encoder, chunk>>

\* lines 133-143: interleave(planes, channels), on the chosen planes or on
\* the planes deintereave returned.
FnInterleave ==
    /\ \/ pc = "fn_start" /\ call.fn = "interleave"
       \/ pc = "fn_deinterleaved"
    /\ IF interleave_panics(call.planes, call.channels)
       THEN Finish(Panic("index out of bounds")) /\ UNCHANGED call
       ELSE /\ call' = [call EXCEPT !.interleaved = interleave(call.planes, call.channels)]
            /\ Finish(Ok(<<>>))
    /\ UNCHANGED <<source, len, id, n_frames, buffer, decoder, bitrate, npackets,
                   ndecoded, okPlanes, last, encoder, chunk>>

NextFn ==
    \/ FnDeinterleave
    \/ FnInterleave

SpecFn == InitFn /\ [][NextFn]_vars

(***************************************************************************)
(* Properties.                                                             *)
(***************************************************************************)
Terminal == pc \in {"done", "failed", "panic"}

\* The written region of a buffer.
Written(self) == SubSeq(self.buffer, 1, self.written)

\* The interleaved samples a decoded packet stands for, frame by frame and
\* within a frame channel by channel, in the buffer's sample format.
PacketSamples(planes, channels) ==
    [k \in 1..(channels * Len(planes[1])) |->
        from_sample(planes[((k - 1) % channels) + 1][((k - 1) \div channels) + 1])]

RECURSIVE ConcatSamples(_, _)
ConcatSamples(packets, channels) ==
    IF packets = <<>>
    THEN <<>>
    ELSE ConcatSamples(SubSeq(packets, 1, Len(packets) - 1), channels)
            \o PacketSamples(packets[Len(packets)], channels)

\* A step of the model that is a call of copy_samples(decoded): `last` then
\* holds the decoded planes.
IsAppend == npackets' = npackets + 1 /\ last'.ev = "ok"

\* The append does not fit: the planes the layout needs are missing, or the
\* frames times the channel count exceed the free slots.
AppendOverflows ==
    \/ Len(last'.planes) < buffer.channels
    \/ buffer.written + buffer.channels * Len(last'.planes[1])
          > buffer.duration * buffer.channels

\* C1: in SpecBuf, for a buffer constructed with duration d and layout c,
\* after every step the storage length is d * channel_count(c) and
\* written <= that capacity; an append whose interleaved length exceeds the
\* free capacity halts the process and leaves the buffer as it was (no state
\* with written > capacity, no partial write).
C1_CapacityInvariant ==
    [][/\ buffer'.channels \in Channels =>
            /\ Len(buffer'.buffer) = buffer'.duration * buffer'.channels
            /\ buffer'.written <= buffer'.duration * buffer'.channels
       /\ buffer.channels \in Channels =>
            /\ buffer'.duration = buffer.duration
            /\ buffer'.channels = buffer.channels
       /\ (IsAppend /\ AppendOverflows) =>
            /\ pc' = "panic"
            /\ result'.tag = "Panic"
            /\ buffer' = buffer]_vars

\* Witness of C1: after a successful append, a second append that does not
\* fit has halted the process.
C1_Witness ==
    /\ pc = "panic"
    /\ last.ev = "ok"
    /\ npackets = 2
    /\ buffer.written > 0
    /\ Len(last.planes) >= buffer.channels
    /\ buffer.written + buffer.channels * Len(last.planes[1]) > Len(buffer.buffer)

\* The loop of decode has been left (or halted) after at least one turn.
LoopLeft == last.ev # "none" /\ pc # "loop"

\* C2 as stated: whatever the packets of the selected track are, as long as
\* none fails with a hard error, decode returns success and the written
\* region is the concatenation of the packets decoded successfully.
C2_Original ==
    (LoopLeft /\ last.ev # "hard") =>
        /\ result.tag = "Ok"
        /\ Written(buffer) = ConcatSamples(okPlanes, buffer.channels)

\* C2, amended: decode robustness.  While the loop runs and when decode has
\* returned, the written region equals the concatenation, in stream order,
\* of the interleaved samples of the packets decoded successfully; a
\* soft-failed packet changes neither the buffer nor written and the loop
\* goes on; the loop is left only with Ok((bitrate, buffer)), except that a
\* successfully decoded packet whose append is fatal (it does not fit the
\* free capacity, C1, or has fewer planes than the layout has channels)
\* halts the process.
C2_DecodeRobustness ==
    /\ [](pc \in {"loop", "done"} =>
            /\ buffer.written = Len(ConcatSamples(okPlanes, buffer.channels))
            /\ Written(buffer) = ConcatSamples(okPlanes, buffer.channels))
    /\ [](LoopLeft =>
            \/ pc = "done" /\ result = Ok(<<bitrate, buffer>>)
            \/ /\ pc = "panic"
               /\ last.ev = "ok"
               /\ \/ Len(last.planes) < buffer.channels
                  \/ buffer.written + buffer.channels * Len(last.planes[1])
                        > buffer.duration * buffer.channels)
    /\ [][(npackets' = npackets + 1 /\ last'.ev = "soft") =>
            /\ buffer' = buffer
            /\ okPlanes' = okPlanes
            /\ result' = result
            /\ pc' = "loop"]_vars

\* Witness of C2: decode has returned after at least two packets decoded
\* successfully and at least one soft failure, with samples written.
C2_Witness ==
    /\ pc = "done"
    /\ last.ev = "reader error"
    /\ Len(okPlanes) >= 2
    /\ ndecoded > Len(okPlanes)
    /\ buffer.written >= 2
    /\ Len(okPlanes[1][1]) > 0

\* C3: in the loop, a reader error (end of stream included) and a decoder
\* error other than the per-packet decode error end the loop: decode returns
\* Ok((bitrate, buffer)) with the bitrate and the buffer as they were, no
\* packet is read or decoded afterwards, and no step of the loop makes decode
\* return an error.
C3_LoopEndsWithOk ==
    [][/\ (pc = "loop" /\ last'.ev \in {"reader error", "hard"}) =>
            /\ pc' = "done"
            /\ buffer' = buffer
            /\ bitrate' = bitrate
            /\ result' = Ok(<<bitrate, buffer>>)
       /\ pc = "loop" => result'.tag # "Err"
       /\ pc = "done" => (npackets' = npackets /\ ndecoded' = ndecoded
                            /\ result' = result)]_vars

\* Witness of C3: a hard decoder error has ended the loop after samples were
\* written; decode returned them.
C3_Witness ==
    /\ pc = "done"
    /\ last.ev = "hard"
    /\ buffer.written > 0
    /\ result.tag = "Ok"

\* C4: in the loop only packets whose track id equals the id of the default
\* track reach the decoder; a packet of another track leaves the buffer and
\* written unchanged, is not decoded and does not end the loop.
C4_OnlySelectedTrackDecoded ==
    [][/\ ndecoded' # ndecoded => last'.track_id = id
       /\ (pc = "loop" /\ npackets' = npackets + 1 /\ last'.track_id # id) =>
            /\ ndecoded' = ndecoded
            /\ buffer' = buffer
            /\ okPlanes' = okPlanes
            /\ result' = result
            /\ pc' = "loop"]_vars

\* Witness of C4: a packet of another track was just skipped, with samples
\* of the selected track already written, and the loop is still running.
C4_Witness ==
    /\ pc = "loop"
    /\ last.ev = "skip"
    /\ last.track_id # id
    /\ buffer.written > 0
    /\ ndecoded < npackets

\* C5 as stated: every PropertyLacking failure of decode is reported before
\* the buffer is constructed and before the decoder is instantiated.
C5_Original ==
    (result.tag = "Err" /\ result.err[1] = "PropertyLacking") =>
        (buffer = NoBuffer /\ ~decoder)

\* C5, amended: a PropertyLacking failure for the source length, the default
\* track, the frame count, the channel layout or the sample rate is reported
\* before the buffer is constructed and the decoder instantiated;
\* PropertyLacking("time base") is reported after both, with the buffer
\* allocated for the declared frame count, and before any packet is read.
C5_PropertyLackingAndBuffer ==
    (result.tag = "Err" /\ result.err[1] = "PropertyLacking") =>
        /\ npackets = 0
        /\ ndecoded = 0
        /\ result.err[2] \in {"source length", "default track", "n_frames",
                              "channel layout", "sample rate", "time base"}
        /\ result.err[2] # "time base" => (buffer = NoBuffer /\ ~decoder)
        /\ result.err[2] = "time base" =>
              /\ ~IsSome(source.time_base)
              /\ decoder
              /\ buffer = new(Unwrap(source.n_frames), resolved_layout(source),
                              Unwrap(source.sample_rate))

\* Witness of C5: the time base is the only absent property; decode failed
\* with the buffer allocated and the decoder made.
C5_Witness ==
    /\ result = PropertyLacking("time base")
    /\ Len(buffer.buffer) > 0
    /\ decoder
    /\ pc = "failed"

\* C6: a source whose reader reports no default track makes decode fail with
\* PropertyLacking("default track"); no buffer is allocated, no decoder is
\* made and no packet is read or decoded.
C6_NoDefaultTrack ==
    (IsSome(source.byte_len) /\ source.probe = "Ok" /\ ~IsSome(source.default_track)) =>
        /\ buffer = NoBuffer
        /\ ~decoder
        /\ npackets = 0
        /\ ndecoded = 0
        /\ pc \in {"byte_len", "probe", "default_track", "failed"}
        /\ pc = "failed" => result = PropertyLacking("default track")

\* Witness of C6: decode has failed on a source without a default track.
C6_Witness ==
    /\ pc = "failed"
    /\ IsSome(source.byte_len)
    /\ source.probe = "Ok"
    /\ ~IsSome(source.default_track)
    /\ result = PropertyLacking("default track")

\* What one check of the metadata yields on a source: NoResult when it
\* passes, else the failure it ends decode with.
CheckOutcome(src, check) ==
    CASE check = "source length" ->
            IF IsSome(src.byte_len) THEN NoResult ELSE PropertyLacking("source length")
      [] check = "probe" ->
            IF src.probe = "Ok" THEN NoResult ELSE Err("Symphonia", "probe")
      [] check = "default track" ->
            IF IsSome(src.default_track) THEN NoResult ELSE PropertyLacking("default track")
      [] check = "channel layout" ->
            IF IsSome(src.channel_layout)
            THEN IF Unwrap(src.channel_layout) \in {"Mono", "Stereo"}
                 THEN NoResult ELSE Panic("unsupported layout")
            ELSE IF IsSome(src.channels)
                 THEN NoResult ELSE PropertyLacking("channel layout")
      [] check = "n_frames" ->
            IF IsSome(src.n_frames) THEN NoResult ELSE PropertyLacking("n_frames")
      [] check = "sample rate" ->
            IF IsSome(src.sample_rate) THEN NoResult ELSE PropertyLacking("sample rate")
      [] check = "decoder" ->
            IF src.codec = "Ok" THEN NoResult ELSE Err("Symphonia", "make")
      [] check = "time base" ->
            IF IsSome(src.time_base) THEN NoResult ELSE PropertyLacking("time base")

\* The outcome of the first check, in the given order, that fails.
RECURSIVE FirstFailure(_, _)
FirstFailure(src, order) ==
    IF order = <<>>
    THEN NoResult
    ELSE IF CheckOutcome(src, Head(order)) # NoResult
         THEN CheckOutcome(src, Head(order))
         ELSE FirstFailure(src, Tail(order))

ClaimedOrder ==
    <<"source length", "probe", "default track", "channel layout", "n_frames",
      "sample rate", "decoder", "time base">>

CodeOrder ==
    <<"source length", "probe", "default track", "n_frames", "channel layout",
      "sample rate", "decoder", "time base">>

\* The number of checks decode has passed when it stands at pc.
ChecksPassed ==
    CASE pc = "byte_len" -> 0
      [] pc = "probe" -> 1
      [] pc = "default_track" -> 2
      [] pc = "n_frames" -> 3
      [] pc = "channel_layout" -> 4
      [] pc = "sample_rate" -> 5
      [] pc \in {"new", "make"} -> 6
      [] pc = "bitrate" -> 7

\* decode has stopped before its packet loop.
StoppedBeforeLoop == Terminal /\ last.ev = "none"

\* C7 as stated: the outcome is that of the first failing check in the order
\* source length, default track, channel layout, frame count, sample rate,
\* decoder construction, time base.
C7_Original ==
    (StoppedBeforeLoop /\ FirstFailure(source, ClaimedOrder) # NoResult) =>
        result = FirstFailure(source, ClaimedOrder)

\* C7, amended: decode examines the metadata in the order source length,
\* (probe), default track, total frame count, channel layout, sample rate,
\* (decoder construction), time base, and its outcome is that of the first
\* check in this order that fails: a track lacking both a channel layout and
\* a frame count fails with PropertyLacking("n_frames"), and so does a track
\* with an unsupported layout tag and no frame count; decode stands past a
\* check only when the source passes it and all checks before it.
C7_CheckOrder ==
    /\ StoppedBeforeLoop =>
          result = IF FirstFailure(source, CodeOrder) # NoResult
                   THEN FirstFailure(source, CodeOrder)
                   ELSE Panic("attempt to divide by zero")
    /\ (~Terminal /\ pc # "loop") =>
          FirstFailure(source, SubSeq(CodeOrder, 1, ChecksPassed)) = NoResult

\* Witness of C7: decode failed on a track that lacks the frame count and
\* has no usable channel layout (none at all, or an unsupported tag).
C7_Witness ==
    /\ pc = "failed"
    /\ result = PropertyLacking("n_frames")
    /\ ~IsSome(source.n_frames)
    /\ CheckOutcome(source, "channel layout") = PropertyLacking("channel layout")

\* The chunks of 2048 interleaved samples encode_vorbis is to submit
\* according to C8: those of the written region.
WrittenChunks(self) == chunks(Written(self), CHUNK)

\* encode_vorbis has returned the compressed stream.
Encoded == pc = "done" /\ encoder.finished = 1

\* C8 as stated: encode_vorbis submits exactly the chunks of the written
\* samples, ceil(written / 2048) blocks, and no unwritten slot.
C8_Original ==
    Encoded =>
        /\ Len(encoder.blocks) = (buffer.written + CHUNK - 1) \div CHUNK
        /\ \A k \in 1..Len(encoder.blocks) :
              interleave(encoder.blocks[k], buffer.channels) = WrittenChunks(buffer)[k]

\* The k-th run of at most CHUNK slots of the storage.
StorageChunk(self, k) ==
    SubSeq(self.buffer, (k - 1) * CHUNK + 1, Min(k * CHUNK, Len(self.buffer)))

NChunks(self) == (Len(self.buffer) + CHUNK - 1) \div CHUNK

\* C9: encode_vorbis submits the blocks in buffer order, block k being the
\* k-th chunk; finish is called at most once and only after every chunk was
\* submitted; when submitting a block fails, encode_vorbis returns that
\* error without compressed output, finish is not called, and afterwards
\* the encoder receives nothing more.
C9_EncodeProtocol ==
    /\ [](/\ encoder.finished <= 1
          /\ Len(encoder.blocks) <= NChunks(buffer)
          /\ \A k \in 1..Len(encoder.blocks) :
                /\ Len(encoder.blocks[k]) = buffer.channels
                /\ interleave(encoder.blocks[k], buffer.channels) = StorageChunk(buffer, k)
          /\ encoder.finished = 1 =>
                (Len(encoder.blocks) = NChunks(buffer) /\ pc \in {"done", "failed"})
          /\ (pc = "done" /\ encoder.built) => encoder.finished = 1
          /\ (pc = "encode_loop" /\ encoder.built) => Len(encoder.blocks) = chunk - 1
          /\ result = Err("Vorbis", "encode_audio_block") =>
                /\ pc = "failed"
                /\ encoder.finished = 0
                /\ Len(encoder.blocks) < NChunks(buffer)
                /\ result.value = <<>>)
    /\ [][Terminal => encoder' = encoder]_vars

\* Witness of C9: submitting the second of three blocks failed.
C9_Witness ==
    /\ result = Err("Vorbis", "encode_audio_block")
    /\ Len(encoder.blocks) = 1
    /\ NChunks(buffer) = 3
    /\ buffer.written > 0

\* C10 as stated: samples() is exactly the written slice, of length written.
C10_Original ==
    buffer.channels \in Channels =>
        /\ Len(samples(buffer)) = buffer.written
        /\ samples(buffer) = Written(buffer)

(***************************************************************************)
(* The buffer's contents (SpecBuf).                                        *)
(***************************************************************************)
\* A step that is SampleBuffer::new.
IsNew == buffer = NoBuffer /\ pc = "buf_start" /\ pc' = "buf_ready"

\* Every slot of the storage after the write cursor holds the neutral value.
TailNeutral(self) ==
    \A i \in (self.written + 1)..Len(self.buffer) : self.buffer[i] = MID

\* C11: in SpecBuf, right after construction written = 0 and every slot of
\* the storage holds the neutral sample value; an append that returns
\* advances written by exactly the interleaved length of the packet
\* (channel count times frames), writes the packet's samples into the slots
\* written .. written + len and leaves every other slot as it was; written
\* never decreases; and in every state every slot at an index >= written
\* holds the neutral value.
C11_AppendFrame ==
    [][/\ IsNew =>
            /\ buffer'.written = 0
            /\ \A i \in DOMAIN buffer'.buffer : buffer'.buffer[i] = MID
       /\ (IsAppend /\ pc' # "panic") =>
            LET n == buffer.channels * Len(last'.planes[1])
            IN  /\ buffer'.written = buffer.written + n
                /\ Len(buffer'.buffer) = Len(buffer.buffer)
                /\ SubSeq(buffer'.buffer, buffer.written + 1, buffer.written + n)
                      = PacketSamples(last'.planes, buffer.channels)
                /\ SubSeq(buffer'.buffer, 1, buffer.written)
                      = SubSeq(buffer.buffer, 1, buffer.written)
                /\ SubSeq(buffer'.buffer, buffer.written + n + 1, Len(buffer.buffer))
                      = SubSeq(buffer.buffer, buffer.written + n + 1, Len(buffer.buffer))
       /\ buffer'.written >= buffer.written
       /\ buffer' # buffer => TailNeutral(buffer')]_vars

\* Witness of C11: two packets were appended and free slots remain after
\* them.
C11_Witness ==
    /\ pc = "buf_ready"
    /\ npackets = 2
    /\ buffer.written > Len(last.planes[1]) * buffer.channels
    /\ Len(last.planes[1]) > 0
    /\ buffer.written < Len(buffer.buffer)
    /\ buffer.channels = Stereo

\* A step that is a call of buffer.converted().
IsConverted == pc = "buf_ready" /\ last'.ev = "converted"

\* C12: in SpecBuf, converted() returns a buffer with the written count,
\* duration, layout, sample rate and storage length of the source, whose
\* slot i holds the converted sample of the source's slot i, for every slot
\* of the storage; the source buffer is left as it was.  This holds for a
\* buffer just constructed and for one that packets were appended to.
C12_ConvertedFrame ==
    [][IsConverted =>
          /\ result'.tag = "Ok"
          /\ LET c == result'.value[1]
             IN  /\ c.written = buffer.written
                 /\ c.duration = buffer.duration
                 /\ c.channels = buffer.channels
                 /\ c.sample_rate = buffer.sample_rate
                 /\ Len(c.buffer) = Len(buffer.buffer)
                 /\ \A i \in DOMAIN buffer.buffer :
                       c.buffer[i] = from_sample_u8(buffer.buffer[i])
          /\ buffer' = buffer]_vars

\* Witness of C12: converted() was called on a buffer holding two appended
\* packets and free slots after them; the samples it returns differ from
\* the source's.
C12_Witness ==
    /\ last.ev = "converted"
    /\ pc = "done"
    /\ npackets = 2
    /\ result.value[1].written > 0
    /\ result.value[1].written < Len(result.value[1].buffer)
    /\ result.value[1].buffer # buffer.buffer

(***************************************************************************)
(* interleave and deintereave (SpecFn).                                    *)
(***************************************************************************)
\* interleave(deintereave(a, layout), layout) has returned.
RoundTripDone == pc = "done" /\ call.fn = "deintereave"

\* C13: in SpecFn, for every array a of even length with layout Stereo and
\* every array a of any length with layout Mono, deintereave returns and
\* interleave(deintereave(a, layout), layout) = a; for Stereo, deintereave
\* returns two channels of len/2 samples each, channel 0 holding the
\* elements at the even (0-based) indices and channel 1 those at the odd
\* ones.
C13_RoundTrip ==
    /\ (call.fn = "deintereave" /\ pc = "panic")
          => (call.channels = Stereo /\ Len(call.samples) % 2 = 1)
    /\ RoundTripDone => call.interleaved = call.samples
    /\ (call.fn = "deintereave" /\ pc \in {"fn_deinterleaved", "done"}
            /\ call.channels = Stereo)
          => /\ Len(call.planes) = 2
             /\ \A c \in 1..2 :
                   /\ 2 * Len(call.planes[c]) = Len(call.samples)
                   /\ \A k \in 1..Len(call.planes[c]) :
                         call.planes[c][k] = call.samples[2 * (k - 1) + c]

\* Witness of C13: a Stereo array of two different frames went through
\* deintereave and interleave.
C13_Witness ==
    /\ RoundTripDone
    /\ call.channels = Stereo
    /\ call.samples = <<1, 2, 2, 1>>

(***************************************************************************)
(* The bitrate of decode (Spec).                                           *)
(***************************************************************************)
\* A step in which decode computed the bitrate and went on to the loop.
IsBitrate == pc = "bitrate" /\ pc' = "loop"

\* total_byte_length / duration * 8 with the exact duration ts * numer / denom
\* of the stream, the fraction of a second included.
ExactBitrate(bytes, tb, ts) == ((bytes * tb[2]) \div (ts * tb[1])) * 8

\* C14 as stated: the bitrate decode computes is the byte length divided by
\* the exact duration of the stream (time base applied to the frame count,
\* fraction included), times 8, not by the duration cut to whole seconds.
C14_Original ==
    [][IsBitrate =>
          bitrate' = ExactBitrate(len, Unwrap(source.time_base), n_frames)]_vars

\* C15 as stated: with every metadata item present and a Mono or Stereo
\* layout the bitrate computation never halts the process, whatever the
\* frame count and the time base: the divisor is never zero.
C15_Original ==
    result # Panic("attempt to divide by zero")

\* interleave was called on two planes with layout Stereo.
StereoInterleave ==
    call.fn = "interleave" /\ call.channels = Stereo /\ Len(call.planes) = 2

\* C16 as stated: Stereo interleave of two planes of equal length n returns
\* 2n samples, plane 0's sample i at index 2i and plane 1's at index 2i + 1;
\* on two planes of different lengths interleave halts and never returns an
\* array.
C16_Original ==
    StereoInterleave =>
        IF Len(call.planes[1]) = Len(call.planes[2])
        THEN pc = "done" =>
                /\ Len(call.interleaved) = 2 * Len(call.planes[1])
                /\ \A i \in 1..Len(call.planes[1]) :
                      /\ call.interleaved[2 * i - 1] = call.planes[1][i]
                      /\ call.interleaved[2 * i] = call.planes[2][i]
        ELSE pc # "done"

(***************************************************************************)
(* The chunks of encode_vorbis and the layout decode resolves.             *)
(***************************************************************************)
\* C17: in SpecBuf, for every buffer constructed (any duration, Mono or
\* Stereo) and after any appends, every chunk encode_vorbis hands to
\* deintereave, the last shorter one included, has a length that is a
\* multiple of the buffer's channel count: Stereo deintereave is never
\* called on an odd-length chunk and never indexes past the end.
C17_ChunkAlignment ==
    /\ buffer.channels \in Channels =>
          \A k \in DOMAIN chunks(samples(buffer), CHUNK) :
             /\ Len(chunks(samples(buffer), CHUNK)[k]) % buffer.channels = 0
             /\ ~deintereave_panics(chunks(samples(buffer), CHUNK)[k], buffer.channels)
    /\ result # Panic("index out of bounds")

\* Witness of C17: a Stereo buffer of CHUNK + 1 frames that a packet was
\* appended to; its third and last chunk, of one frame, was de-interleaved
\* and submitted.
C17_Witness ==
    /\ buffer.channels = Stereo
    /\ buffer.written > 0
    /\ Len(encoder.blocks) = 3
    /\ Len(encoder.blocks[3][1]) = 1
    /\ Len(encoder.blocks[3][2]) = 1

\* The layout the tag and the raw channel count of a track stand for: the
\* tag when there is one, else Stereo for a count above 1 and Mono otherwise.
ClaimedLayout(tag, count) ==
    IF tag = <<"Mono">> THEN Mono
    ELSE IF tag = <<"Stereo">> THEN Stereo
    ELSE IF count[1] > 1 THEN Stereo ELSE Mono

\* C18: in Spec, when decode resolves the channel layout, a tag that is
\* present decides alone: Mono gives Mono, Stereo gives Stereo and any other
\* tag halts the process, whether or not a raw channel count is present;
\* only without a tag is the raw count used, a count above 1 giving Stereo
\* and any other Mono; and the resolution returns
\* PropertyLacking("channel layout") exactly when the tag and the count are
\* both absent.  The buffer decode builds has the layout so resolved.
C18_LayoutResolution ==
    [][/\ pc = "channel_layout" =>
            /\ (IsSome(source.channel_layout)
                   /\ source.channel_layout \notin {<<"Mono">>, <<"Stereo">>})
                  <=> (pc' = "panic" /\ result'.tag = "Panic")
            /\ (~IsSome(source.channel_layout) /\ ~IsSome(source.channels))
                  <=> result' = PropertyLacking("channel layout")
            /\ (\/ source.channel_layout \in {<<"Mono">>, <<"Stereo">>}
                \/ ~IsSome(source.channel_layout) /\ IsSome(source.channels))
                  <=> (pc' = "sample_rate" /\ result' = NoResult)
       /\ result' = PropertyLacking("channel layout") =>
            (~IsSome(source'.channel_layout) /\ ~IsSome(source'.channels))
       /\ (pc = "new" /\ pc' = "make") =>
            buffer'.channels = ClaimedLayout(source.channel_layout, source.channels)]_vars

\* Witness of C18: the track carries the tag Mono and a raw count of 2
\* channels, and decode has built a Mono buffer.
C18_Witness ==
    /\ pc = "make"
    /\ source.channel_layout = <<"Mono">>
    /\ source.channels = <<2>>
    /\ buffer.channels = Mono
    /\ Len(buffer.buffer) = MaxFrames

(***************************************************************************)
(* The state machine of decode and its termination (SpecFair).             *)
(***************************************************************************)
\* The state of the machine Init -> Probed -> TrackSelected -> BufferSized
\* -> Decoding -> Done that decode is in when it stands at pc.
Phase(p) ==
    CASE p \in {"byte_len", "probe"} -> 0
      [] p = "default_track" -> 1
      [] p \in {"n_frames", "channel_layout", "sample_rate", "new"} -> 2
      [] p \in {"make", "bitrate"} -> 3
      [] p = "loop" -> 4
      [] p = "done" -> 5

\* C19 as stated: once in the Decoding loop, decode, whose reader reports
\* exhaustion or an error sooner or later, leaves the loop and reaches Done.
C19_Original ==
    [](pc = "loop" => <>(pc = "done"))

\* C19, amended: decode moves through Init, Probed, TrackSelected,
\* BufferSized, Decoding and Done in this order, one state at a time and
\* never backwards; it returns an error only before Decoding; once it has
\* returned or halted nothing more happens; and it terminates: when the
\* reader reports exhaustion or an error sooner or later, decode reaches
\* Done, or stops before Decoding, or halts in Decoding on an append that
\* is fatal, however many packets are skipped or soft-fail.
C19_StateMachine ==
    /\ [][/\ ~Terminal
          /\ \/ pc' \in {"failed", "panic"}
             \/ Phase(pc') \in {Phase(pc), Phase(pc) + 1}
          /\ pc' = "failed" => Phase(pc) < 4
          /\ pc' = "panic" => (Phase(pc) < 4 \/ (IsAppend /\ AppendOverflows))]_vars
    /\ <>Terminal
    /\ [](pc = "loop" => <>(pc \in {"done", "panic"}))

\* Witness of C19: decode is Done after the reader delivered MaxPackets
\* packets, one of another track and one that soft-failed among them.
C19_Witness ==
    /\ pc = "done"
    /\ last.ev = "reader error"
    /\ npackets = MaxPackets
    /\ ndecoded < npackets
    /\ Len(okPlanes) < ndecoded
    /\ Len(okPlanes) > 0
====
